---- MODULE Spec2Model ----
(***************************************************************************)
(* Model of src/tdc.py: the discrete-time PID simulation of the air fryer  *)
(* (simular_air_fryer) and the input handler that feeds it                 *)
(* (run_simulation_and_plot).                                              *)
(*                                                                         *)
(* Numbers.  Every Python float is modelled as a fixed-point integer: the  *)
(* real value x is the integer x * Scale.  The inputs are drawn from       *)
(* integers and from powers of two, so that every product and quotient of  *)
(* the loop is exact both in IEEE double and in this representation        *)
(* (ExactArithmetic below states it).  NaN and infinities are not values   *)
(* of the engine model; the text conversion float() is modelled by its     *)
(* grammar, and the texts "nan" and "inf" are texts it accepts.            *)
(***************************************************************************)
EXTENDS Integers, Sequences, FiniteSets, TLC

\* ------------------------------------------------------------------ bounds
MaxDur == 3          \* largest duracion tried (seconds)
MaxPert == 2         \* longest perturbaciones_data list tried

\* ------------------------------------------------------------ fixed point
Scale == 2^8

Fx(n) == n * Scale

Abs(x) == IF x < 0 THEN -x ELSE x

\* a * b of two fixed-point numbers
Mul(a, b) == (a * b) \div Scale

\* floor of the quotient p / q of two integers, q # 0
FloorQuot(p, q) == IF q > 0 THEN p \div q ELSE (-p) \div (-q)

\* a / b of two fixed-point numbers, b # 0
Div(a, b) == FloorQuot(a * Scale, b)

\* ------------------------------------------------------ program constants
AMBIENT_TEMPERATURE == Fx(20)
DEFAULT_DELTA_T == Fx(1)
SatLow == Fx(0)
SatHigh == Fx(200)

\* ------------------------------------------------------------ input sets
Setpoints == {Fx(22), Fx(26), Fx(180)}
Deadbands == {Fx(0), Fx(5)}
KpSet == {Fx(-1), Fx(4)}
KiSet == {Fx(0), Fx(1)}
KdSet == {Fx(-1), Fx(1)}
TauSet == {Fx(-1), Fx(0), Fx(1), Fx(2)}
DeltaSet == {Fx(-1), Fx(0), Fx(1), Fx(2)}
\* half-integer durations from -1 to MaxDur
DurSet == {h * (Scale \div 2) : h \in -2..(2 * MaxDur)}

Pert(t, v, d) == [tiempo |-> Fx(t), valor |-> Fx(v), duracion |-> Fx(d)]

PertCandidates == {Pert(2, -2, 1), Pert(2, 12, 1), Pert(1, 3, 2)}

SeqsUpTo(S, n) == UNION {[1..k -> S] : k \in 0..n}

\* the argument perturbaciones_data: None (the default) or a list
PyNone == [none |-> TRUE, lista |-> <<>>]

PyList(l) == [none |-> FALSE, lista |-> l]

PertLists == {PyNone} \cup {PyList(l) : l \in SeqsUpTo(PertCandidates, MaxPert)}

\* truth value of `if perturbaciones_data:`
Truthy(data) == ~data.none /\ data.lista # <<>>

VARIABLES
    pc,                 \* position in simular_air_fryer
    exception,          \* name of the exception that ended the call, or "none"
    theta_i, kp_c, ki_c, kd_c, tau_s, delta_t, duracion,
    deadband_threshold, perturbaciones_data,
    num_pasos, i,
    tiempo, theta_o, theta_controlador, f, error, p_total,
    effective_error_for_plotting,
    integral_error, ultimo_error,
    \* the window: the text of each entry widget, the module-level list, what
    \* the two axes show, the last error dialog, and the presses handled so far
    entry_setpoint, entry_kp_c, entry_ki_c, entry_kd_c, entry_tau_s,
    entry_duracion, entry_deadband_threshold, entry_perturbaciones,
    parsed_perturbations_for_plotting, plots, messagebox, pulsaciones

args == <<theta_i, kp_c, ki_c, kd_c, tau_s, delta_t, duracion,
          deadband_threshold, perturbaciones_data>>

arrays == <<tiempo, theta_o, theta_controlador, f, error, p_total,
            effective_error_for_plotting>>

locals == <<num_pasos, i, arrays, integral_error, ultimo_error>>

entries == <<entry_setpoint, entry_kp_c, entry_ki_c, entry_kd_c, entry_tau_s,
             entry_duracion, entry_deadband_threshold, entry_perturbaciones>>

window == <<entries, parsed_perturbations_for_plotting, plots, messagebox,
            pulsaciones>>

vars == <<pc, exception, args, locals, window>>

\* the list of the call, empty for None
Lista == perturbaciones_data.lista

\* ------------------------------------------------------------- np.arange
\* len(np.arange(0, stop, step)) = max(0, ceil(stop / step)); step # 0
ArangeLen(stop, step) ==
    LET c == -FloorQuot(-stop, step)
    IN IF c < 0 THEN 0 ELSE c

\* np.zeros(n)
Zeros(n) == [k \in 0..(n - 1) |-> 0]

\* ---------------------------------------------------------- loop helpers
\* a gate that lets every error through
DeadbandSinBanda(e, th) == e

\* lines 70-72
Deadband(e, th) == IF Abs(e) < th THEN 0 ELSE e

\* an accumulator that is cleared inside the deadband
AcumularConReset(integral, eff, dt) ==
    IF eff # 0 THEN integral + Mul(eff, dt) ELSE 0

\* lines 79-80
Acumular(integral, eff, dt) ==
    IF eff # 0 THEN integral + Mul(eff, dt) ELSE integral

\* a derivative that is a plain difference, not a rate
SalidaPIDSinDt(kp, ki, kd, eff, integral, ultimo, dt) ==
    Mul(kp, eff) + Mul(ki, integral) + Mul(kd, eff - ultimo)

\* lines 83-87
SalidaPID(kp, ki, kd, eff, integral, ultimo, dt) ==
    Mul(kp, eff) + Mul(ki, integral) + Mul(kd, Div(eff - ultimo, dt))

\* a clamp with the upper limit only
SaturarSoloAlto(u) == IF u > SatHigh THEN SatHigh ELSE u

\* a clamp with the lower limit only
SaturarSoloBajo(u) == IF u < SatLow THEN SatLow ELSE u

\* lines 90-93
Saturar(u) ==
    LET a == IF u < SatLow THEN SatLow ELSE u
    IN IF a > SatHigh THEN SatHigh ELSE a

\* a window closed on the right
ActivaCerrada(p, t) == p.tiempo <= t /\ t <= p.tiempo + p.duracion

\* line 104
Activa(p, t) == p.tiempo <= t /\ t < p.tiempo + p.duracion

\* lines 98-105
RECURSIVE SumaPerturbaciones(_, _, _)
SumaPerturbaciones(data, k, t) ==
    IF k > Len(data) THEN 0
    ELSE (IF Activa(data[k], t) THEN data[k].valor ELSE 0)
         + SumaPerturbaciones(data, k + 1, t)

PerturbacionTotal(data, t) ==
    IF Truthy(data) THEN SumaPerturbaciones(data.lista, 1, t) ELSE 0

\* lines 111-112
Euler(prev, u, p, tau, dt) ==
    prev + Mul(Mul(Div(Fx(1), tau), u - prev) + p, dt)

\* no floor
SinPiso(x) == x

\* lines 115-116
Piso(x) == IF x < AMBIENT_TEMPERATURE THEN AMBIENT_TEMPERATURE ELSE x

\* the next position after the loop header has been evaluated for index k
LoopHead(k, n) == IF k < n THEN "controller" ELSE "return"

\* plots before anything is drawn, and after ax.clear()
NoPlots == [drawn |-> FALSE, ax1 |-> <<>>, ax2 |-> <<>>, spans |-> <<>>]

\* lines 121-135: the module-level names before the window is built
WindowNotBuilt ==
    /\ entry_setpoint = <<>>
    /\ entry_kp_c = <<>>
    /\ entry_ki_c = <<>>
    /\ entry_kd_c = <<>>
    /\ entry_tau_s = <<>>
    /\ entry_duracion = <<>>
    /\ entry_deadband_threshold = <<>>
    /\ entry_perturbaciones = <<>>
    /\ parsed_perturbations_for_plotting = <<>>
    /\ plots = NoPlots
    /\ messagebox = "none"
    /\ pulsaciones = 0

\* ------------------------------------------------------------------ Init
\* a direct call of simular_air_fryer with arguments from the input sets
Init ==
    /\ pc = "entry"
    /\ exception = "none"
    /\ theta_i \in Setpoints
    /\ kp_c \in KpSet
    /\ ki_c \in KiSet
    /\ kd_c \in KdSet
    /\ tau_s \in TauSet
    /\ delta_t \in DeltaSet
    /\ duracion \in DurSet
    /\ deadband_threshold \in Deadbands
    /\ perturbaciones_data \in PertLists
    /\ num_pasos = 0
    /\ i = 0
    /\ tiempo = <<>>
    /\ theta_o = <<>>
    /\ theta_controlador = <<>>
    /\ f = <<>>
    /\ error = <<>>
    /\ p_total = <<>>
    /\ effective_error_for_plotting = <<>>
    /\ integral_error = 0
    /\ ultimo_error = 0
    /\ WindowNotBuilt

Raise(name) ==
    /\ pc' = "raised"
    /\ exception' = name

\* lines 51-64, np.arange dividing by a zero step
SetupZeroStep ==
    /\ pc = "entry"
    /\ delta_t = 0
    /\ Raise("ZeroDivisionError")
    /\ UNCHANGED <<args, num_pasos, i, arrays, integral_error, ultimo_error>>
    /\ UNCHANGED window

\* lines 51-61, theta_o[0] on an empty array
SetupEmpty ==
    /\ pc = "entry"
    /\ delta_t # 0
    /\ ArangeLen(duracion + delta_t, delta_t) = 0
    /\ Raise("IndexError")
    /\ num_pasos' = 0
    /\ UNCHANGED <<args, i, arrays, integral_error, ultimo_error>>
    /\ UNCHANGED window

\* lines 51-66
Setup ==
    /\ pc = "entry"
    /\ delta_t # 0
    /\ LET n == ArangeLen(duracion + delta_t, delta_t) IN
        /\ n > 0
        /\ num_pasos' = n
        /\ tiempo' = [k \in 0..(n - 1) |-> k * delta_t]
        /\ theta_o' = [Zeros(n) EXCEPT ![0] = AMBIENT_TEMPERATURE]
        /\ theta_controlador' = Zeros(n)
        /\ f' = Zeros(n)
        /\ error' = Zeros(n)
        /\ p_total' = Zeros(n)
        /\ effective_error_for_plotting' = Zeros(n)
        /\ integral_error' = 0
        /\ ultimo_error' = 0
        /\ i' = 1
        /\ pc' = LoopHead(1, n)
    /\ UNCHANGED <<exception, args>>
    /\ UNCHANGED window

\* lines 67-87: feedback, error, deadband, integral, derivative, PID sum
ControllerStep ==
    /\ pc = "controller"
    /\ LET fb == theta_o[i - 1]
           e == theta_i - fb
           effective_error == Deadband(e, deadband_threshold)
           integral == Acumular(integral_error, effective_error, delta_t)
       IN
        /\ f' = [f EXCEPT ![i] = fb]
        /\ error' = [error EXCEPT ![i] = e]
        /\ effective_error_for_plotting' =
               [effective_error_for_plotting EXCEPT ![i] = effective_error]
        /\ integral_error' = integral
        /\ theta_controlador' =
               [theta_controlador EXCEPT ![i] =
                   SalidaPID(kp_c, ki_c, kd_c, effective_error, integral,
                             ultimo_error, delta_t)]
    /\ pc' = "plant"
    /\ UNCHANGED <<exception, args, num_pasos, i, tiempo, theta_o, p_total,
                   ultimo_error>>
    /\ UNCHANGED window

\* lines 89-111 with tau_s = 0: 1/tau_s divides by zero
PlantStepZeroTau ==
    /\ pc = "plant"
    /\ tau_s = 0
    /\ theta_controlador' =
           [theta_controlador EXCEPT ![i] = Saturar(theta_controlador[i])]
    /\ ultimo_error' = effective_error_for_plotting[i]
    /\ p_total' =
           [p_total EXCEPT ![i] = PerturbacionTotal(perturbaciones_data, tiempo[i])]
    /\ Raise("ZeroDivisionError")
    /\ UNCHANGED <<args, num_pasos, i, tiempo, theta_o, f, error,
                   effective_error_for_plotting, integral_error>>
    /\ UNCHANGED window

\* lines 89-116 and the loop header: saturation, disturbances, plant, floor
PlantStep ==
    /\ pc = "plant"
    /\ tau_s # 0
    /\ LET u == Saturar(theta_controlador[i])
           p == PerturbacionTotal(perturbaciones_data, tiempo[i])
       IN
        /\ theta_controlador' = [theta_controlador EXCEPT ![i] = u]
        /\ ultimo_error' = effective_error_for_plotting[i]
        /\ p_total' = [p_total EXCEPT ![i] = p]
        /\ theta_o' =
               [theta_o EXCEPT ![i] = Piso(Euler(theta_o[i - 1], u, p, tau_s, delta_t))]
    /\ i' = i + 1
    /\ pc' = LoopHead(i + 1, num_pasos)
    /\ UNCHANGED <<exception, args, num_pasos, tiempo, f, error,
                   effective_error_for_plotting, integral_error>>
    /\ UNCHANGED window

\* line 118
Return ==
    /\ pc = "return"
    /\ pc' = "returned"
    /\ UNCHANGED <<exception, args, num_pasos, i, arrays,
                   integral_error, ultimo_error>>
    /\ UNCHANGED window

Next ==
    \/ SetupZeroStep
    \/ SetupEmpty
    \/ Setup
    \/ ControllerStep
    \/ PlantStepZeroTau
    \/ PlantStep
    \/ Return

Spec == Init /\ [][Next]_vars

\* ===================================================== the input handler
\* A text is the sequence of its characters.
MaxPulsaciones == 2  \* presses of "Simular sistema" followed

Digit == [c \in {"0", "1", "2", "3", "4", "5", "6", "7", "8", "9"} |->
            CASE c = "0" -> 0 [] c = "1" -> 1 [] c = "2" -> 2 [] c = "3" -> 3
              [] c = "4" -> 4 [] c = "5" -> 5 [] c = "6" -> 6 [] c = "7" -> 7
              [] c = "8" -> 8 [] c = "9" -> 9]

\* str.strip()
RECURSIVE Strip(_)
Strip(s) ==
    IF s = <<>> THEN s
    ELSE IF Head(s) = " " THEN Strip(Tail(s))
    ELSE IF s[Len(s)] = " " THEN Strip(SubSeq(s, 1, Len(s) - 1))
    ELSE s

\* str.split(sep): the text has one more part than it has separators
RECURSIVE Split(_, _)
Split(s, sep) ==
    IF \A k \in 1..Len(s) : s[k] # sep THEN <<s>>
    ELSE LET k == CHOOSE x \in 1..Len(s) :
                      s[x] = sep /\ \A y \in 1..(x - 1) : s[y] # sep
         IN <<SubSeq(s, 1, k - 1)>> \o Split(SubSeq(s, k + 1, Len(s)), sep)

Unsigned(s) == IF s # <<>> /\ Head(s) \in {"-", "+"} THEN Tail(s) ELSE s

AllDigits(s) == \A k \in 1..Len(s) : s[k] \in DOMAIN Digit

\* a decimal numeral: digits with at most one point and at least one digit
EsDecimal(s) ==
    LET u == Unsigned(Strip(s))
        parts == Split(u, ".")
    IN /\ Len(parts) <= 2
       /\ \A k \in 1..Len(parts) : AllDigits(parts[k])
       /\ \E k \in 1..Len(parts) : parts[k] # <<>>

\* the texts float() converts, among the texts over digits, sign, point,
\* blank, letters: the decimal numerals, and nan and inf
FloatOk(s) ==
    \/ EsDecimal(s)
    \/ Unsigned(Strip(s)) \in {<<"n", "a", "n">>, <<"i", "n", "f">>}

RECURSIVE Numero(_)
Numero(d) ==
    IF d = <<>> THEN 0
    ELSE 10 * Numero(SubSeq(d, 1, Len(d) - 1)) + Digit[d[Len(d)]]

RECURSIVE Pow10(_)
Pow10(n) == IF n = 0 THEN 1 ELSE 10 * Pow10(n - 1)

\* stands for the float nan (and inf) in a field that no arithmetic reads
NaN == -(2^30)

\* float(s) for a text FloatOk accepts
FloatVal(s) ==
    LET t == Strip(s)
        u == Unsigned(t)
        parts == Split(u, ".")
        frac == IF Len(parts) = 2 THEN parts[2] ELSE <<>>
        mag == Fx(Numero(parts[1])) + (Fx(Numero(frac)) \div Pow10(Len(frac)))
    IN IF ~EsDecimal(s) THEN NaN
       ELSE IF Head(t) = "-" THEN -mag ELSE mag

MsgNumerico == "Error de Entrada: Ingresar valores numericos validos."
MsgFormato == "Error de Entrada: Formato de perturbacion incorrecto."
MsgSimulacion == "Error de Simulacion"

\* a parser that drops the segments that do not have three fields
RECURSIVE ParseSegsTolerante(_, _, _)
ParseSegsTolerante(segs, k, acc) ==
    IF k > Len(segs) THEN [status |-> "ok", lista |-> acc]
    ELSE LET parts == Split(segs[k], ",") IN
         IF Len(parts) = 3
         THEN IF \A j \in 1..3 : FloatOk(Strip(parts[j]))
              THEN ParseSegsTolerante(segs, k + 1,
                       Append(acc, [tiempo |-> FloatVal(Strip(parts[1])),
                                    valor |-> FloatVal(Strip(parts[2])),
                                    duracion |-> FloatVal(Strip(parts[3]))]))
              ELSE [status |-> "ValueError", lista |-> acc]
         ELSE ParseSegsTolerante(segs, k + 1, acc)

\* lines 153-163: the segments in order; the first bad one ends the parse
RECURSIVE ParseSegs(_, _, _)
ParseSegs(segs, k, acc) ==
    IF k > Len(segs) THEN [status |-> "ok", lista |-> acc]
    ELSE LET parts == Split(segs[k], ",") IN
         IF Len(parts) = 3
         THEN IF \A j \in 1..3 : FloatOk(Strip(parts[j]))
              THEN ParseSegs(segs, k + 1,
                       Append(acc, [tiempo |-> FloatVal(Strip(parts[1])),
                                    valor |-> FloatVal(Strip(parts[2])),
                                    duracion |-> FloatVal(Strip(parts[3]))]))
              ELSE [status |-> "ValueError", lista |-> acc]
         ELSE [status |-> "formato", lista |-> acc]

\* lines 149-163
ParsePerturbaciones(text) ==
    LET perturbaciones_str == Strip(text)
    IN IF perturbaciones_str = <<>> THEN [status |-> "ok", lista |-> <<>>]
       ELSE ParseSegs(Split(perturbaciones_str, ";"), 1, <<>>)

\* lines 141-147: the seven float() conversions
ScalarEntries ==
    <<entry_setpoint, entry_kp_c, entry_ki_c, entry_kd_c, entry_tau_s,
      entry_duracion, entry_deadband_threshold>>

ScalarsOk == \A k \in 1..Len(ScalarEntries) : FloatOk(ScalarEntries[k])

\* ------------------------------------------------------- texts typed in
\* "": no disturbances
TxtVacio == <<>>

\* "2, -2.0 ,1": one triple, with blanks around a field
TxtUna == <<"2", ",", " ", "-", "2", ".", "0", " ", ",", "1">>

\* "2,-2.0,1;1,3,2": two triples
TxtDos == <<"2", ",", "-", "2", ".", "0", ",", "1", ";", "1", ",", "3", ",", "2">>

\* "2,-2.0,1;1,2": the second segment has two fields
TxtDosCampos == <<"2", ",", "-", "2", ".", "0", ",", "1", ";", "1", ",", "2">>

\* "2,-2.0,1;1,x,1": the second segment has a field that is no number
TxtNoNumero == <<"2", ",", "-", "2", ".", "0", ",", "1", ";", "1", ",", "x", ",", "1">>

\* "1,2;2,-2.0,1": the first segment has two fields
TxtPrimeroMalo == <<"1", ",", "2", ";", "2", ",", "-", "2", ".", "0", ",", "1">>

\* "2,-2.0,1;": a trailing semicolon: the last segment is empty
TxtPuntoYComa == <<"2", ",", "-", "2", ".", "0", ",", "1", ";">>

\* "9,nan,1": a magnitude that float() accepts and that is no decimal number
TxtNan == <<"9", ",", "n", "a", "n", ",", "1">>
SetpointTexts == {<<"2", "6">>, <<"x">>}
TauTexts == {<<"2">>, <<"0">>}
DuracionTexts == {<<"2">>, <<"-", "1">>}
PerturbacionTexts ==
    {TxtVacio, TxtUna, TxtDos, TxtDosCampos, TxtNoNumero, TxtPrimeroMalo,
     TxtPuntoYComa, TxtNan}

\* the entries as the user fills them in
Filled(setpoint, kp, ki, kd, tau, dur, deadband, perturbaciones) ==
    /\ setpoint \in SetpointTexts
    /\ kp = <<"4">>
    /\ ki = <<"1", ".", "0">>
    /\ kd = <<"-", "1">>
    /\ tau \in TauTexts
    /\ dur \in DuracionTexts
    /\ deadband = <<" ", "5", " ">>
    /\ perturbaciones \in PerturbacionTexts

\* the locals and arguments of simular_air_fryer outside a call
NoCall ==
    /\ theta_i = 0 /\ kp_c = 0 /\ ki_c = 0 /\ kd_c = 0 /\ tau_s = 0
    /\ delta_t = 0 /\ duracion = 0 /\ deadband_threshold = 0
    /\ perturbaciones_data = PyNone
    /\ num_pasos = 0 /\ i = 0
    /\ tiempo = <<>> /\ theta_o = <<>> /\ theta_controlador = <<>>
    /\ f = <<>> /\ error = <<>> /\ p_total = <<>>
    /\ effective_error_for_plotting = <<>>
    /\ integral_error = 0 /\ ultimo_error = 0

\* the window, built and filled in by the user, before the first press
InitUI ==
    /\ pc = "idle"
    /\ exception = "none"
    /\ NoCall
    /\ Filled(entry_setpoint, entry_kp_c, entry_ki_c, entry_kd_c, entry_tau_s,
              entry_duracion, entry_deadband_threshold, entry_perturbaciones)
    /\ parsed_perturbations_for_plotting = <<>>
    /\ plots = NoPlots
    /\ messagebox = "none"
    /\ pulsaciones = 0

\* the user edits the entries between two presses
Teclear ==
    /\ pc = "idle"
    /\ 0 < pulsaciones /\ pulsaciones < MaxPulsaciones
    /\ Filled(entry_setpoint', entry_kp_c', entry_ki_c', entry_kd_c',
              entry_tau_s', entry_duracion', entry_deadband_threshold',
              entry_perturbaciones')
    /\ UNCHANGED <<pc, exception, args, locals,
                   parsed_perturbations_for_plotting, plots, messagebox,
                   pulsaciones>>

\* lines 140-163 and 243-244: a conversion fails, or a segment does not have
\* three fields; a dialog is shown and the handler ends
HandlerInputError ==
    /\ pc = "idle"
    /\ pulsaciones < MaxPulsaciones
    /\ LET r == ParsePerturbaciones(entry_perturbaciones) IN
        /\ ~ScalarsOk \/ r.status # "ok"
        /\ messagebox' = IF ScalarsOk /\ r.status = "formato"
                         THEN MsgFormato ELSE MsgNumerico
    /\ pulsaciones' = pulsaciones + 1
    /\ UNCHANGED <<pc, exception, args, locals, entries,
                   parsed_perturbations_for_plotting, plots>>

\* lines 140-179: every conversion succeeds; the list is stored and
\* simular_air_fryer is called
HandlerCall ==
    /\ pc = "idle"
    /\ pulsaciones < MaxPulsaciones
    /\ ScalarsOk
    /\ LET r == ParsePerturbaciones(entry_perturbaciones) IN
        /\ r.status = "ok"
        /\ parsed_perturbations_for_plotting' = r.lista
        /\ perturbaciones_data' = PyList(r.lista)
    /\ theta_i' = FloatVal(entry_setpoint)
    /\ kp_c' = FloatVal(entry_kp_c)
    /\ ki_c' = FloatVal(entry_ki_c)
    /\ kd_c' = FloatVal(entry_kd_c)
    /\ tau_s' = FloatVal(entry_tau_s)
    /\ delta_t' = DEFAULT_DELTA_T
    /\ duracion' = FloatVal(entry_duracion)
    /\ deadband_threshold' = FloatVal(entry_deadband_threshold)
    /\ pc' = "entry"
    /\ pulsaciones' = pulsaciones + 1
    /\ UNCHANGED <<exception, locals, entries, plots, messagebox>>

\* the call is over: its arguments and locals are gone
EndCall ==
    /\ pc' = "idle"
    /\ exception' = "none"
    /\ theta_i' = 0 /\ kp_c' = 0 /\ ki_c' = 0 /\ kd_c' = 0 /\ tau_s' = 0
    /\ delta_t' = 0 /\ duracion' = 0 /\ deadband_threshold' = 0
    /\ perturbaciones_data' = PyNone
    /\ num_pasos' = 0 /\ i' = 0
    /\ tiempo' = <<>> /\ theta_o' = <<>> /\ theta_controlador' = <<>>
    /\ f' = <<>> /\ error' = <<>> /\ p_total' = <<>>
    /\ effective_error_for_plotting' = <<>>
    /\ integral_error' = 0 /\ ultimo_error' = 0

\* lines 181-241: the axes are cleared and the result is drawn
HandlerPlot ==
    /\ pc = "returned"
    /\ plots' =
        [drawn |-> TRUE,
         ax1 |-> <<tiempo, theta_o, [k \in DOMAIN tiempo |-> theta_i]>>,
         ax2 |-> <<tiempo, theta_controlador, error, f>>,
         spans |-> [k \in DOMAIN parsed_perturbations_for_plotting |->
                      LET p_info == parsed_perturbations_for_plotting[k]
                      IN <<p_info.tiempo, p_info.tiempo + p_info.duracion>>]]
    /\ EndCall
    /\ UNCHANGED <<entries, parsed_perturbations_for_plotting, messagebox,
                   pulsaciones>>

\* lines 245-246: the call raised (no ValueError among its exceptions)
HandlerExcept ==
    /\ pc = "raised"
    /\ messagebox' = MsgSimulacion
    /\ EndCall
    /\ UNCHANGED <<entries, parsed_perturbations_for_plotting, plots,
                   pulsaciones>>

\* SetupZeroStep is no step of the window: it calls with DEFAULT_DELTA_T
NextUI ==
    \/ Teclear
    \/ HandlerInputError
    \/ HandlerCall
    \/ SetupEmpty
    \/ Setup
    \/ ControllerStep
    \/ PlantStepZeroTau
    \/ PlantStep
    \/ Return
    \/ HandlerPlot
    \/ HandlerExcept

SpecUI == InitUI /\ [][NextUI]_vars

\* ------------------------------------------------------ model soundness
ExactMul(a, b) == (a * b) % Scale = 0

ExactDiv(a, b) == b # 0 => (a * Scale) % Abs(b) = 0

\* Every product and quotient the next step forms has no remainder in the
\* fixed-point representation: the model computes what exact real (and, for
\* these inputs, double precision) arithmetic computes.
ExactArithmetic ==
    /\ pc = "controller" =>
        LET eff == Deadband(theta_i - theta_o[i - 1], deadband_threshold)
            integral == Acumular(integral_error, eff, delta_t)
        IN /\ ExactMul(eff, delta_t)
           /\ ExactDiv(eff - ultimo_error, delta_t)
           /\ ExactMul(kp_c, eff)
           /\ ExactMul(ki_c, integral)
           /\ ExactMul(kd_c, Div(eff - ultimo_error, delta_t))
    /\ (pc = "plant" /\ tau_s # 0) =>
        LET u == Saturar(theta_controlador[i])
            p == PerturbacionTotal(perturbaciones_data, tiempo[i])
            rate == Mul(Div(Fx(1), tau_s), u - theta_o[i - 1]) + p
        IN /\ ExactDiv(Fx(1), tau_s)
           /\ ExactMul(Div(Fx(1), tau_s), u - theta_o[i - 1])
           /\ ExactMul(rate, delta_t)

\* No arithmetic of a run reads the stand-in NaN: a disturbance that has it as
\* a field is active at no sample, and no scalar argument is NaN.
NaNNeverRead ==
    /\ \A a \in {theta_i, kp_c, ki_c, kd_c, tau_s, delta_t, duracion,
                 deadband_threshold} : a # NaN
    /\ \A k \in 1..Len(Lista) :
          (NaN \in {Lista[k].tiempo, Lista[k].valor, Lista[k].duracion}) =>
              /\ Lista[k].tiempo # NaN /\ Lista[k].duracion # NaN
              /\ \A j \in DOMAIN tiempo : ~Activa(Lista[k], tiempo[j])

\* ------------------------------------------------------- the handler, C7
\* the segments of the disturbance text, none for a blank text
Segmentos ==
    LET t == Strip(entry_perturbaciones)
    IN IF t = <<>> THEN <<>> ELSE Split(t, ";")

\* every segment is three comma-separated fields that pass Campo
TriplesOk(Campo(_)) ==
    \A k \in 1..Len(Segmentos) :
        LET parts == Split(Segmentos[k], ",")
        IN Len(parts) = 3 /\ \A j \in 1..3 : Campo(parts[j])

\* a press of the button is handled in this step
Press == pulsaciones' = pulsaciones + 1

\* the press is refused: a dialog reports the input error, the engine is not
\* entered, and the stored list and the plots stay as they were
Refused ==
    /\ pc' = "idle"
    /\ messagebox' \in {MsgNumerico, MsgFormato}
    /\ UNCHANGED <<args, locals, exception, entries,
                   parsed_perturbations_for_plotting, plots>>

Computed == IF pc = "entry" THEN {} ELSE 0..(i - 1)

\* indices i >= 1 whose controller output has been computed (lines 67-87)
Controlled == IF pc = "plant" THEN 1..i ELSE Computed \ {0}

InBand(e) == Abs(e) < deadband_threshold

InvalidConfiguration == delta_t <= 0 \/ tau_s <= 0 \/ duracion < 0

\* sum of the magnitudes of the disturbances whose indices are in S
RECURSIVE SumaValores(_)
SumaValores(S) ==
    IF S = {} THEN 0
    ELSE LET k == CHOOSE x \in S : TRUE
         IN Lista[k].valor + SumaValores(S \ {k})

\* the disturbances whose half-open window [start, start + duration) holds t
ActiveAt(t) ==
    {k \in 1..Len(Lista) :
        Lista[k].tiempo <= t /\ t < Lista[k].tiempo + Lista[k].duracion}

\* (* C1 *) Whenever the time step is <= 0, tau is <= 0 or the duration is
\* < 0, the call fails and returns no result series, also when the loop body
\* runs zero times.  Any exception the call ends with is taken for the claim's
\* InvalidConfiguration error.
C1_InvalidConfigurationRejected ==
    InvalidConfiguration => pc # "returned"

\* (* C2 *) For duration >= 0 and time step > 0 the result has exactly
\* floor(duration / step) + 1 samples, t_k = k * step, and all seven series
\* have that length, also when duration is not a multiple of the step.
C2_StepCount ==
    (pc = "returned" /\ duracion >= 0 /\ delta_t > 0 /\ tau_s > 0) =>
        LET n == FloorQuot(duracion, delta_t) + 1
        IN /\ num_pasos = n
           /\ tiempo = [k \in 0..(n - 1) |-> k * delta_t]
           /\ \A a \in {theta_o, theta_controlador, f, error, p_total,
                        effective_error_for_plotting} :
                  DOMAIN a = 0..(n - 1)

\* (* C3 *) Every computed plant temperature is >= ambient and theta_o[0] is
\* the ambient temperature, whatever the gains, setpoint, deadband and
\* disturbances.
C3_AmbientFloor ==
    /\ pc # "entry" /\ num_pasos > 0 => theta_o[0] = AMBIENT_TEMPERATURE
    /\ \A j \in Computed : theta_o[j] >= AMBIENT_TEMPERATURE

\* a finished step at which line 115-116 raised the Euler value to ambient
C3_Witness ==
    /\ pc = "returned"
    /\ \E j \in Computed \ {0} :
        /\ p_total[j] < 0
        /\ Euler(theta_o[j - 1], theta_controlador[j], p_total[j],
                 tau_s, delta_t) < AMBIENT_TEMPERATURE
        /\ theta_o[j] = AMBIENT_TEMPERATURE
    /\ \E j \in Computed : theta_o[j] > AMBIENT_TEMPERATURE

\* (* C4 *) Every stored controller output theta_c[j], j >= 1, lies in the
\* saturation range [0, 200], whatever the gains, integral and derivative.
C4_Saturation ==
    \A j \in Computed \ {0} :
        SatLow <= theta_controlador[j] /\ theta_controlador[j] <= SatHigh

\* a run with a negative gain that stored both saturation limits
C4_Witness ==
    /\ pc = "returned"
    /\ kp_c < 0
    /\ \E j \in Computed \ {0} : theta_controlador[j] = SatHigh
    /\ \E j \in Computed \ {0} :
        theta_controlador[j] = SatLow /\ effective_error_for_plotting[j] # 0

\* (* C5 *) If |setpoint - ambient| < deadband then theta_c[1] = 0, and through
\* the initial run of steps whose raw error is inside the deadband the
\* effective error and the integral accumulator stay 0.
C5_DeadbandZeroing ==
    InBand(theta_i - AMBIENT_TEMPERATURE) =>
        /\ 1 \in Controlled => theta_controlador[1] = 0
        /\ \A j \in Controlled :
              (\A k \in 1..j : InBand(error[k])) =>
                  effective_error_for_plotting[j] = 0
        /\ (\A k \in Controlled : InBand(error[k])) => integral_error = 0

\* a run that starts inside the deadband, stays there for two steps with a
\* disturbance acting, and returns
C5_Witness ==
    /\ pc = "returned"
    /\ InBand(theta_i - AMBIENT_TEMPERATURE)
    /\ num_pasos >= 3
    /\ \A k \in Controlled : InBand(error[k])
    /\ \E k \in Controlled : error[k] # error[1]
    /\ kp_c # 0 /\ ki_c # 0
    /\ integral_error = 0

\* (* C6 *) At every step j >= 1 the recorded p[j] is the sum of the magnitudes
\* of exactly the disturbances whose half-open window start <= t_j < start +
\* duration holds t_j = j * step: overlaps add, the order of the list does not
\* matter, and without disturbances every p[j] is 0.
C6_DisturbanceWindow ==
    /\ \A j \in Computed \ {0} :
          p_total[j] = SumaValores(ActiveAt(j * delta_t))
    /\ (perturbaciones_data.none \/ Lista = <<>>) =>
          \A j \in Computed : p_total[j] = 0

\* a run in which two windows overlap at one sample, one of them has just
\* ended at another, and one has not yet started at a third
C6_Witness ==
    /\ pc = "returned"
    /\ \E j \in Computed \ {0} :
          Cardinality(ActiveAt(j * delta_t)) = 2 /\ p_total[j] = Fx(10)
    /\ \E j \in Computed \ {0}, k \in 1..Len(Lista) :
          /\ j * delta_t = Lista[k].tiempo + Lista[k].duracion
          /\ p_total[j] = 0
    /\ \E j \in Computed \ {0}, k \in 1..Len(Lista) :
          /\ (j + 1) * delta_t = Lista[k].tiempo
          /\ p_total[j] = 0

\* (* C8 *) In every controller step the integral accumulator grows by
\* effective_error * step when the effective error is nonzero and keeps its
\* value when it is 0; the rest of the loop body, saturation included, leaves
\* it alone.
C8_IntegralUpdate ==
    [][/\ pc = "controller" =>
            LET eff == effective_error_for_plotting'[i]
            IN integral_error' =
                   integral_error + (IF eff # 0 THEN Mul(eff, delta_t) ELSE 0)
       /\ pc = "plant" => integral_error' = integral_error]_vars

\* the output of step 1 was clamped from above, the accumulator grew again at
\* step 2, and at step 3 the error is inside the deadband and the accumulator
\* holds its nonzero value
C8_Witness ==
    /\ pc = "plant" /\ i = 3
    /\ SalidaPID(kp_c, ki_c, kd_c, effective_error_for_plotting[1],
                 Mul(effective_error_for_plotting[1], delta_t), 0, delta_t)
           > SatHigh
    /\ theta_controlador[1] = SatHigh
    /\ effective_error_for_plotting[2] # 0
    /\ effective_error_for_plotting[3] = 0
    /\ integral_error # 0
    /\ integral_error =
           Mul(effective_error_for_plotting[1], delta_t)
           + Mul(effective_error_for_plotting[2], delta_t)

\* eff[k], the post-deadband error of step k, with eff[0] = 0
Eff(k) == effective_error_for_plotting[k]

PTerm(k) == Mul(kp_c, Eff(k))

DTerm(k) == Mul(kd_c, Div(Eff(k) - Eff(k - 1), delta_t))

\* the controller output before clamping, as lines 85-87 leave it
C9_Formula ==
    /\ pc = "plant" =>
          theta_controlador[i] = PTerm(i) + Mul(ki_c, integral_error) + DTerm(i)
    /\ pc \in {"controller", "plant"} => Eff(0) = 0 /\ ultimo_error = Eff(i - 1)

\* step k is the first step inside the deadband after a step outside it
Entra(k) == k >= 2 /\ ~InBand(error[k - 1]) /\ InBand(error[k])

C9_Spike ==
    \A k \in Controlled :
        Entra(k) =>
            PTerm(k) = 0 /\ DTerm(k) = Mul(kd_c, Div(-Eff(k - 1), delta_t))

\* The statement of C9 as claimed: the formula, the spike, and a derivative
\* term of 0 on the step after the spike.
C9_Original ==
    ~InvalidConfiguration =>
    /\ C9_Formula
    /\ C9_Spike
    /\ \A k \in Controlled : (k >= 3 /\ Entra(k - 1)) => DTerm(k) = 0

\* (* C9 *) The controller output before clamping is Kp*eff[i] + Ki*integral
\* + Kd*(eff[i] - eff[i-1])/step with eff[0] = 0 and the unclamped eff carried
\* to the next step; on the first step inside the deadband after a step
\* outside it the proportional term is 0 and the derivative term is
\* -Kd*eff[i-1]/step, and on the step after that the derivative term is 0 if
\* that step's raw error is inside the deadband too.
C9_ControllerOutput ==
    /\ C9_Formula
    /\ C9_Spike
    /\ \A k \in Controlled :
          (k >= 3 /\ Entra(k - 1) /\ InBand(error[k])) => DTerm(k) = 0

\* a spike at step 2 (nonzero derivative term) followed by a step that stays
\* inside the deadband
C9_Witness ==
    /\ pc = "plant" /\ i = 3
    /\ Entra(2) /\ InBand(error[3])
    /\ DTerm(2) # 0
    /\ theta_controlador[3] = Mul(ki_c, integral_error)
    /\ integral_error # 0 /\ ki_c # 0

\* (* C10 *) When 0 < step <= tau and no disturbance has a positive magnitude,
\* every computed plant temperature lies between ambient and the upper
\* saturation bound 200.
C10_Precondition ==
    /\ 0 < delta_t /\ delta_t <= tau_s
    /\ \A k \in 1..Len(Lista) : Lista[k].valor <= 0

C10_UpperBound ==
    C10_Precondition =>
        \A j \in Computed :
            AMBIENT_TEMPERATURE <= theta_o[j] /\ theta_o[j] <= SatHigh

\* a run with step = tau that reaches 200 and is then pulled down by a
\* negative disturbance
C10_Witness ==
    /\ pc = "returned"
    /\ C10_Precondition
    /\ \E j \in Computed \ {0} :
          /\ theta_o[j - 1] = SatHigh
          /\ p_total[j] < 0
          /\ theta_o[j] < SatHigh

====
